---- MODULE Spec2Model ----
(***************************************************************************)
(* Model of consensus/alien/snapshot.go: the DPoS voting snapshot, its     *)
(* copy, the apply transition and the signer queue.                        *)
(*                                                                         *)
(* *big.Int values are cells of a heap (a sequence of integers), a pointer *)
(* is an index into it: copy() shares the tally cells of the parent, and   *)
(* apply() does its arithmetic in place on those cells.                    *)
(* uint64 values are four 16-bit limbs, least significant first, so that   *)
(* the punishment ledger wraps at 2^64 as the Go type does.                *)
(***************************************************************************)
EXTENDS Integers, Sequences, FiniteSets, TLC

VARIABLES heap, head, calls, origin, cached, queues, turn

vars == <<heap, head, calls, origin, cached, queues, turn>>

\* ---------------------------------------------------------------- bounds
MaxStake == 1
MaxBatch == 2
MaxHeight == 2
MaxQueues == 2
MaxPunishHeight == 4
MaxExpireHeight == 3
MaxForkHeight == 2
MaxQueueHeight == 2
MaxTurnHeight == 2
MaxTurnBack == 2
MaxTurnLoops == 2
MaxWeightHeight == 4
MaxMisses == 11

\* ------------------------------------------------- program configuration
\* params.AlienConfig, supplied by the chain's genesis file. A snapshot
\* carries the fields of it that differ between the chains modelled:
\* config.MaxSignerCount, which is at most MaxSignerCount, and config.Epoch,
\* which is Epoch or, for the punishment decay, at most MaxEpoch.
MaxSignerCount == 2
Epoch == 1
MaxEpoch == 2
Period == 3
GenesisTimestamp == 10

Address == {"A", "B", "C"}
SelfVoteSigners == <<"A", "B">>

\* constants of snapshot.go
defaultFullCredit == 1000
missingPublishCredit == 100
signRewardCredit == 10
minCalSignerQueueCredit == 300

errInvalidVotingChain == "errInvalidVotingChain"
errRecover == "errRecover"

\* ------------------------------------------------------- uint64 (4 limbs)
Base == 2 ^ 16
HalfBase == 2 ^ 15

Zero64 == <<0, 0, 0, 0>>

\* the uint64 of a small natural
U64(n) == <<n % Base, (n \div Base) % Base, 0, 0>>

\* a / d for a small d > 0
Div64(a, d) ==
  LET n4 == a[4]
      n3 == (n4 % d) * Base + a[3]
      n2 == (n3 % d) * Base + a[2]
      n1 == (n2 % d) * Base + a[1]
  IN  <<n1 \div d, n2 \div d, n3 \div d, n4 \div d>>

\* a + b mod 2^64
Add64(a, b) ==
  LET s1 == a[1] + b[1]
      s2 == a[2] + b[2] + (s1 \div Base)
      s3 == a[3] + b[3] + (s2 \div Base)
      s4 == a[4] + b[4] + (s3 \div Base)
  IN  <<s1 % Base, s2 % Base, s3 % Base, s4 % Base>>

\* a - b mod 2^64
Sub64(a, b) ==
  LET d1 == a[1] - b[1]
      b1 == IF d1 < 0 THEN 1 ELSE 0
      d2 == a[2] - b[2] - b1
      b2 == IF d2 < 0 THEN 1 ELSE 0
      d3 == a[3] - b[3] - b2
      b3 == IF d3 < 0 THEN 1 ELSE 0
      d4 == a[4] - b[4] - b3
      b4 == IF d4 < 0 THEN 1 ELSE 0
  IN  <<d1 + b1 * Base, d2 + b2 * Base, d3 + b3 * Base, d4 + b4 * Base>>

\* a / 2
Half64(a) ==
  <<(a[1] \div 2) + (a[2] % 2) * HalfBase,
    (a[2] \div 2) + (a[3] % 2) * HalfBase,
    (a[3] \div 2) + (a[4] % 2) * HalfBase,
    a[4] \div 2>>

\* a < b
Less64(a, b) ==
  \/ a[4] < b[4]
  \/ a[4] = b[4] /\ a[3] < b[3]
  \/ a[4] = b[4] /\ a[3] = b[3] /\ a[2] < b[2]
  \/ a[4] = b[4] /\ a[3] = b[3] /\ a[2] = b[2] /\ a[1] < b[1]

\* ------------------------------------------------------------------ maps
EmptyMap == [x \in {} |-> 0]

Put(f, k, v) == [x \in DOMAIN f \cup {k} |-> IF x = k THEN v ELSE f[x]]

Del(f, k) == [x \in DOMAIN f \ {k} |-> f[x]]

\* ------------------------------------------------------------- snapshots
\* the value of a snapshot: every *big.Int read through its pointer
View(h, s) ==
  [config |-> s.config, Number |-> s.Number, Hash |-> s.Hash, Signers |-> s.Signers,
   Votes |-> [v \in DOMAIN s.Votes |->
               [Voter |-> s.Votes[v].Voter, Candidate |-> s.Votes[v].Candidate,
                Stake |-> h[s.Votes[v].Stake]]],
   Tally |-> [c \in DOMAIN s.Tally |-> h[s.Tally[c]]],
   Voters |-> s.Voters, Punished |-> s.Punished,
   HeaderTime |-> s.HeaderTime, LoopStartTime |-> s.LoopStartTime]

\* one vote of newSnapshot's loop: the snapshot keeps the caller's Vote (and
\* its Stake cell), the tally cell is allocated on the candidate's first vote
NewSnapshotVote(st, vote) ==
  LET h0 == st.heap
      s == st.snap
      p == Len(h0) + 1
      h1 == Append(h0, vote.Stake)
      fresh == vote.Candidate \notin DOMAIN s.Tally
      t == IF fresh THEN Len(h1) + 1 ELSE s.Tally[vote.Candidate]
      h2 == IF fresh THEN Append(h1, 0) ELSE h1
      h3 == [h2 EXCEPT ![t] = @ + h2[p]]
  IN  [heap |-> h3,
       snap |-> [s EXCEPT
                  !.Votes = Put(@, vote.Voter,
                                [Voter |-> vote.Voter, Candidate |-> vote.Candidate,
                                 Stake |-> p]),
                  !.Tally = Put(@, vote.Candidate, t),
                  !.Voters = Put(@, vote.Voter, 0)]]

RECURSIVE NewSnapshotVotes(_, _)
NewSnapshotVotes(st, votes) ==
  IF votes = <<>> THEN st
  ELSE NewSnapshotVotes(NewSnapshotVote(st, Head(votes)), Tail(votes))

\* newSnapshot(config, sigcache, hash, votes), now being the wall clock
newSnapshot(config, hash, votes, now) ==
  NewSnapshotVotes(
    [heap |-> <<>>,
     snap |-> [config |-> config, Number |-> 0, Hash |-> hash,
               Signers |-> [i \in 1..config.MaxSignerCount |->
                             SelfVoteSigners[((i - 1) % Len(SelfVoteSigners)) + 1]],
               Votes |-> EmptyMap, Tally |-> EmptyMap, Voters |-> EmptyMap,
               Punished |-> EmptyMap,
               HeaderTime |-> now - 1, LoopStartTime |-> GenesisTimestamp]],
    votes)

\* the fresh Stake cells of copy(): one per vote, in a fixed order
RECURSIVE CopyVotes(_, _, _)
CopyVotes(h, votes, todo) ==
  IF todo = {} THEN [heap |-> h, votes |-> votes]
  ELSE LET v == CHOOSE x \in todo : TRUE
       IN  CopyVotes(Append(h, h[votes[v].Stake]),
                     [votes EXCEPT ![v].Stake = Len(h) + 1],
                     todo \ {v})

\* Snapshot.copy: new containers, new Stake cells, the SAME tally cells
SnapshotCopy(h, s) ==
  LET cv == CopyVotes(h, s.Votes, DOMAIN s.Votes)
  IN  [heap |-> cv.heap, snap |-> [s EXCEPT !.Votes = cv.votes]]

\* --------------------------------------------------------------- headers
\* a header: Number, Coinbase, Time and the Extra payload; Sig is the
\* outcome of ecrecover on it, Dec the outcome of rlp.DecodeBytes on Extra
ZeroExtra ==
  [LoopStartTime |-> 0, SignerQueue |-> <<>>, CurrentBlockVotes |-> <<>>,
   ModifyPredecessorVotes |-> <<>>, SignerMissing |-> <<>>]

\* rlp.DecodeBytes into a zero HeaderExtra; its error is dropped, so a failed
\* decode leaves the zero value behind
DecodeExtra(header) == IF header.Dec THEN header.Extra ELSE ZeroExtra

\* header.Hash(): collision-free, the hashed fields stand for the hash
HeaderHash(header) ==
  <<header.Number, header.Coinbase, header.Time, header.Dec, header.Extra>>

\* ------------------------------------------------ apply: one header's body
\* lines 200-214, one new vote; st = [heap, snap, panic]
ApplyVote(st, vote, number) ==
  IF st.panic THEN st
  ELSE
  LET s == st.snap
      p == Len(st.heap) + 1
      h1 == Append(st.heap, vote.Stake)
      has == vote.Voter \in DOMAIN s.Votes
      lastVote == s.Votes[vote.Voter]
  IN  IF has /\ lastVote.Candidate \notin DOMAIN s.Tally
      THEN [st EXCEPT !.panic = TRUE]
      ELSE
      LET h2 == IF has
                THEN [h1 EXCEPT ![s.Tally[lastVote.Candidate]] = @ - h1[lastVote.Stake]]
                ELSE h1
          known == vote.Candidate \in DOMAIN s.Tally
          h3 == IF known
                THEN [h2 EXCEPT ![s.Tally[vote.Candidate]] = @ + h2[p]]
                ELSE h2
      IN  [heap |-> h3,
           snap |-> [s EXCEPT
                      !.Tally = IF known THEN @ ELSE Put(@, vote.Candidate, p),
                      !.Votes = Put(@, vote.Voter,
                                    [Voter |-> vote.Voter,
                                     Candidate |-> vote.Candidate, Stake |-> p]),
                      !.Voters = Put(@, vote.Voter, number)],
           panic |-> FALSE]

RECURSIVE ApplyVotes(_, _, _)
ApplyVotes(st, votes, number) ==
  IF votes = <<>> THEN st
  ELSE ApplyVotes(ApplyVote(st, Head(votes), number), Tail(votes), number)

\* lines 216-224, one predecessor modification
ApplyModify(st, txVote) ==
  IF st.panic \/ txVote.Voter \notin DOMAIN st.snap.Votes THEN st
  ELSE
  LET s == st.snap
      lastVote == s.Votes[txVote.Voter]
      p == Len(st.heap) + 1
      h1 == Append(st.heap, txVote.Stake)
  IN  IF lastVote.Candidate \notin DOMAIN s.Tally
      THEN [st EXCEPT !.panic = TRUE]
      ELSE
      LET t == s.Tally[lastVote.Candidate]
          h2 == [h1 EXCEPT ![t] = @ - h1[lastVote.Stake]]
          h3 == [h2 EXCEPT ![t] = @ + h2[p]]
      IN  [heap |-> h3,
           snap |-> [s EXCEPT
                      !.Votes = Put(@, txVote.Voter,
                                    [Voter |-> txVote.Voter,
                                     Candidate |-> lastVote.Candidate, Stake |-> p])],
           panic |-> FALSE]

RECURSIVE ApplyModifies(_, _)
ApplyModifies(st, txVotes) ==
  IF txVotes = <<>> THEN st
  ELSE ApplyModifies(ApplyModify(st, Head(txVotes)), Tail(txVotes))

\* lines 226-234 with the test of line 226 always true
HalvePunishedEveryHeader(epoch, punished, number) ==
  [a \in {x \in DOMAIN punished : Half64(punished[x]) # Zero64} |->
     Half64(punished[a])]

\* lines 226-234: every counter halved, the ones reaching zero deleted
HalvePunished(epoch, punished, number) ==
  IF number % epoch = 0
  THEN [a \in {x \in DOMAIN punished : Half64(punished[x]) # Zero64} |->
          Half64(punished[a])]
  ELSE punished

\* lines 236-242
RECURSIVE PunishMissing(_, _)
PunishMissing(punished, missing) ==
  IF missing = <<>> THEN punished
  ELSE LET a == Head(missing)
       IN  PunishMissing(
             IF a \in DOMAIN punished
             THEN Put(punished, a, Add64(punished[a], U64(missingPublishCredit)))
             ELSE Put(punished, a, U64(missingPublishCredit)),
             Tail(missing))

\* lines 244-249: the counter is a uint64, "<= 0" is "= 0"
RewardSigner(punished, coinbase) ==
  IF coinbase \in DOMAIN punished
  THEN LET count == Sub64(punished[coinbase], U64(signRewardCredit))
       IN  IF count = Zero64 THEN Del(punished, coinbase)
           ELSE Put(punished, coinbase, count)
  ELSE punished

\* lines 191-249: the loop body after a successful ecrecover
ApplyHeader(st, header) ==
  LET headerExtra == DecodeExtra(header)
      s1 == [st.snap EXCEPT !.HeaderTime = header.Time,
                            !.LoopStartTime = headerExtra.LoopStartTime,
                            !.Signers = headerExtra.SignerQueue]
      st1 == ApplyVotes([heap |-> st.heap, snap |-> s1, panic |-> FALSE],
                        headerExtra.CurrentBlockVotes, header.Number)
      st2 == ApplyModifies(st1, headerExtra.ModifyPredecessorVotes)
  IN  IF st2.panic THEN st2
      ELSE [st2 EXCEPT !.snap.Punished =
              RewardSigner(
                PunishMissing(HalvePunished(st.snap.config.Epoch, @, header.Number),
                              headerExtra.SignerMissing),
                header.Coinbase)]

\* ------------------------------------------------- apply: after the loop
\* the guard of line 256
ExpiryStops(s) ==
  \/ Cardinality(DOMAIN s.Voters) <= s.config.MaxSignerCount
  \/ Cardinality(DOMAIN s.Tally) <= s.config.MaxSignerCount

\* line 259 with the bound off by one
ExpiredOneLate(s, voter) == s.Number - s.Voters[voter] > s.config.Epoch + 1

\* line 259
Expired(s, voter) == s.Number - s.Voters[voter] > s.config.Epoch

\* lines 259-268 without the delete of line 267
ExpireVoterKeepsVoter(st, voter) ==
  LET s == st.snap
  IN  IF ~Expired(s, voter) \/ voter \notin DOMAIN s.Votes THEN st
      ELSE
      LET expiredVote == s.Votes[voter]
      IN  IF expiredVote.Candidate \notin DOMAIN s.Tally
          THEN [st EXCEPT !.panic = TRUE]
          ELSE
          LET t == s.Tally[expiredVote.Candidate]
              h1 == [st.heap EXCEPT ![t] = @ - st.heap[expiredVote.Stake]]
          IN  [heap |-> h1,
               snap |-> [s EXCEPT
                          !.Tally = IF h1[t] = 0 THEN Del(@, expiredVote.Candidate)
                                    ELSE @,
                          !.Votes = Del(@, expiredVote.Voter)],
               panic |-> FALSE]

\* lines 259-268 for the voter the range yields
ExpireVoter(st, voter) ==
  LET s == st.snap
  IN  IF ~Expired(s, voter) \/ voter \notin DOMAIN s.Votes THEN st
      ELSE
      LET expiredVote == s.Votes[voter]
      IN  IF expiredVote.Candidate \notin DOMAIN s.Tally
          THEN [st EXCEPT !.panic = TRUE]
          ELSE
          LET t == s.Tally[expiredVote.Candidate]
              h1 == [st.heap EXCEPT ![t] = @ - st.heap[expiredVote.Stake]]
          IN  [heap |-> h1,
               snap |-> [s EXCEPT
                          !.Tally = IF h1[t] = 0 THEN Del(@, expiredVote.Candidate)
                                    ELSE @,
                          !.Votes = Del(@, expiredVote.Voter),
                          !.Voters = Del(@, expiredVote.Voter)],
               panic |-> FALSE]

\* the sweep with "< 0" for "<= 0"
SweepTallyKeepsZero(h, s) ==
  [s EXCEPT !.Tally = [c \in {x \in DOMAIN s.Tally : ~(h[s.Tally[x]] < 0)} |->
                         s.Tally[c]]]

\* lines 272-276
SweepTally(h, s) ==
  [s EXCEPT !.Tally = [c \in {x \in DOMAIN s.Tally : ~(h[s.Tally[x]] <= 0)} |->
                         s.Tally[c]]]

\* the sanity check without line 178
ValidChainAnyStart(number, headers) ==
  \A i \in 1..(Len(headers) - 1) : headers[i + 1].Number = headers[i].Number + 1

\* lines 173-180
ValidChain(number, headers) ==
  /\ \A i \in 1..(Len(headers) - 1) : headers[i + 1].Number = headers[i].Number + 1
  /\ headers[1].Number = number + 1

\* lines 339-344
isVoter(s, address) == address \in DOMAIN s.Voters

\* ----------------------------------------------------------------- inturn
\* a big.Int too large for a machine integer: a sign and five limbs
\* int64(x): the top bit of the uint64 is the sign
Int64(x) ==
  IF x[4] >= HalfBase
  THEN [neg |-> TRUE, mag |-> Sub64(Zero64, x) \o <<0>>]
  ELSE [neg |-> FALSE, mag |-> x \o <<0>>]

\* |i| % n for the magnitude of a big.Int or int and a small n > 0
ModMag(mag, n) ==
  LET r5 == mag[5] % n
      r4 == (r5 * Base + mag[4]) % n
      r3 == (r4 * Base + mag[3]) % n
      r2 == (r3 * Base + mag[2]) % n
  IN  (r2 * Base + mag[1]) % n

\* lines 282-293: "true", "false", or "panic" for the integer divide by zero
\* of line 285 and the negative index of line 288. headerTime and
\* LoopStartTime are uint64, int is 64 bits wide, % truncates towards zero.
inturn(s, signer, headerTime) ==
  LET quot == Int64(Div64(Sub64(U64(headerTime), U64(s.LoopStartTime)), Period))
      n == Len(s.Signers)
      loopIndex == IF quot.neg THEN -ModMag(quot.mag, n) ELSE ModMag(quot.mag, n)
  IN  IF n = 0 THEN "panic"
      ELSE IF loopIndex >= n THEN "false"
      ELSE IF loopIndex < 0 THEN "panic"
      ELSE IF s.Signers[loopIndex + 1] # signer THEN "false"
      ELSE "true"

\* -------------------------------------------------------- getSignerQueue
\* new(big.Int).Mul(stake, w) for a stake that is a small integer
Mul(stake, w) ==
  LET k == IF stake < 0 THEN -stake ELSE stake
      m1 == w.mag[1] * k
      m2 == w.mag[2] * k + (m1 \div Base)
      m3 == w.mag[3] * k + (m2 \div Base)
      m4 == w.mag[4] * k + (m3 \div Base)
      m5 == w.mag[5] * k + (m4 \div Base)
      mag == <<m1 % Base, m2 % Base, m3 % Base, m4 % Base, m5>>
  IN  [neg |-> mag # <<0, 0, 0, 0, 0>> /\ (w.neg # (stake < 0)), mag |-> mag]

MagLess(a, b) ==
  \E i \in 1..5 : a[i] < b[i] /\ \A j \in (i + 1)..5 : a[j] = b[j]

\* a.Cmp(b) > 0
Greater(a, b) ==
  IF a.neg # b.neg THEN b.neg
  ELSE IF a.neg THEN MagLess(a.mag, b.mag)
  ELSE MagLess(b.mag, a.mag)

\* lines 313-315: int64(creditWeight) for the counter of a punished address
CreditWeight(punished) ==
  LET creditWeight == Sub64(U64(defaultFullCredit), punished)
  IN  Int64(IF Less64(creditWeight, U64(minCalSignerQueueCredit))
            THEN U64(minCalSignerQueueCredit)
            ELSE creditWeight)

\* lines 312-318: the stake of line 315 or 317 for one tally entry
WeightedStake(h, s, address) ==
  IF address \in DOMAIN s.Punished
  THEN Mul(h[s.Tally[address]], CreditWeight(s.Punished[address]))
  ELSE Mul(h[s.Tally[address]], Int64(U64(defaultFullCredit)))

\* lines 311-321: range yields the tally in any order and sort.Sort is not
\* stable, so the slice ends in any order in which no item is Less than one
\* before it
SortedTally(h, s) ==
  LET n == Cardinality(DOMAIN s.Tally)
  IN  {p \in [1..n -> DOMAIN s.Tally] :
         /\ \A i, j \in 1..n : i # j => p[i] # p[j]
         /\ \A i, j \in 1..n :
              i < j => ~Greater(WeightedStake(h, s, p[j]), WeightedStake(h, s, p[i]))}

\* lines 322-329
TopStakeAddress(s, tallySlice) ==
  LET queueLength == IF s.config.MaxSignerCount > Len(tallySlice)
                     THEN Len(tallySlice)
                     ELSE s.config.MaxSignerCount
  IN  SubSeq(tallySlice, 1, queueLength)

\* lines 331-334 from position i on: rand.Int() is any non-negative int
RECURSIVE Shuffle(_, _)
Shuffle(q, i) ==
  IF i > Len(q) THEN {q}
  ELSE UNION {Shuffle([q EXCEPT ![i] = q[newPos], ![newPos] = q[i]], i + 1) :
                newPos \in 1..Len(q)}

\* what getSignerQueue can return
getSignerQueue(h, s) ==
  UNION {Shuffle(TopStakeAddress(s, p), 1) : p \in SortedTally(h, s)}

\* ---------------------------------------------------------------- inputs
Stakes == 0..MaxStake

Votes == [Voter : Address, Candidate : Address, Stake : Stakes]

\* a ModifyPredecessorVotes entry carries the voter and the new stake
TxVotes == [Voter : Address, Stake : Stakes]

\* the rotation a header at height n announces
QueueAt(n) == <<SelfVoteSigners[(n % Len(SelfVoteSigners)) + 1]>>

\* what a header carries besides its number: the driver's choice
Kind(coinbase, sig, dec, votes, txVotes, missing) ==
  [Coinbase |-> coinbase, Sig |-> sig, Dec |-> dec, CurrentBlockVotes |-> votes,
   ModifyPredecessorVotes |-> txVotes, SignerMissing |-> missing]

PlainKind == Kind("A", TRUE, TRUE, <<>>, <<>>, <<>>)

\* headers of the voting ledger: one new vote by A or B, for A (who has a
\* tally at genesis) or C (who has none), or one modification, or nothing;
\* or a header ecrecover rejects, or one whose Extra does not decode
VoteKinds ==
  {PlainKind, Kind("A", FALSE, TRUE, <<>>, <<>>, <<>>),
   Kind("A", TRUE, FALSE, <<>>, <<>>, <<>>)}
  \cup {Kind("A", TRUE, TRUE, <<v>>, <<>>, <<>>) :
          v \in [Voter : {"A", "B"}, Candidate : {"A", "C"}, Stake : Stakes]}
  \cup {Kind("A", TRUE, TRUE, <<>>, <<m>>, <<>>) :
          m \in [Voter : {"A", "B"}, Stake : Stakes]}

Header(n, k) ==
  [Number |-> n, Coinbase |-> k.Coinbase, Time |-> GenesisTimestamp + n * Period,
   Sig |-> k.Sig, Dec |-> k.Dec,
   Extra |-> [LoopStartTime |-> GenesisTimestamp, SignerQueue |-> QueueAt(n),
              CurrentBlockVotes |-> k.CurrentBlockVotes,
              ModifyPredecessorVotes |-> k.ModifyPredecessorVotes,
              SignerMissing |-> k.SignerMissing]]

\* the consecutive batches on top of height number, up to height top
ValidBatches(number, kinds, top) ==
  UNION {{[i \in 1..n |-> Header(number + i, ks[i])] : ks \in [1..n -> kinds]} :
           n \in 1..(IF top - number < MaxBatch THEN top - number ELSE MaxBatch)}

\* the headers are not a consecutive run on top of height number
BrokenChain(number, headers) ==
  \/ \E i \in DOMAIN headers :
       i + 1 \in DOMAIN headers /\ headers[i + 1].Number # headers[i].Number + 1
  \/ headers[1].Number # number + 1

\* the batches apply must refuse: a wrong start or a gap; never read further
InvalidBatches(number) ==
  {hs \in UNION {[1..n -> {Header(m, PlainKind) : m \in 0..(MaxHeight + 1)}] :
                   n \in 1..MaxBatch} :
     BrokenChain(number, hs)}

Order == <<"A", "B", "C">>

\* genesis votes: the first n addresses, each for itself or for A, stake 1
GenesisVotes(sizes) ==
  {vs \in UNION {[1..n -> [Voter : Address, Candidate : Address, Stake : {1}]] :
                   n \in sizes} :
     \A i \in DOMAIN vs : /\ vs[i].Voter = Order[i]
                          /\ vs[i].Candidate \in {Order[i], "A"}}

\* the values of config.MaxSignerCount
SignerCounts == 1..MaxSignerCount

\* time.Now().Unix() at genesis
Clock == {GenesisTimestamp + 1}

\* headers of the punishment ledger: A or B signs, A missed its turn or
\* nobody did
PunishKinds ==
  {Kind(cb, TRUE, TRUE, <<>>, <<>>, ms) : cb \in {"A", "B"}, ms \in {<<>>, <<"A">>}}

\* headers of the expiry: somebody votes again, for itself or for A, or nobody
ExpireKinds ==
  {PlainKind}
  \cup {Kind("A", TRUE, TRUE, <<v>>, <<>>, <<>>) :
          v \in {x \in [Voter : Address, Candidate : Address, Stake : {1}] :
                   x.Candidate \in {x.Voter, "A"}}}

\* headers of two branches: A votes for C, A's vote is modified to zero, or
\* nothing
ForkKinds ==
  {PlainKind,
   Kind("A", TRUE, TRUE, <<[Voter |-> "A", Candidate |-> "C", Stake |-> 1]>>, <<>>, <<>>),
   Kind("A", TRUE, TRUE, <<>>, <<[Voter |-> "A", Stake |-> 0]>>, <<>>)}

\* headers of the signer queue: A missed its turn, B votes for A, or nothing
QueueKinds ==
  {PlainKind, Kind("B", TRUE, TRUE, <<>>, <<>>, <<"A">>),
   Kind("A", TRUE, TRUE, <<[Voter |-> "B", Candidate |-> "A", Stake |-> 1]>>, <<>>, <<>>)}

\* headers before an inturn call: plain ones, and one whose Extra does not
\* decode and so announces no signer queue
TurnKinds == {PlainKind, Kind("A", TRUE, FALSE, <<>>, <<>>, <<>>)}

\* the header times inturn is asked about: from before the loop start to
\* MaxTurnLoops periods after it
HeaderTimes ==
  (GenesisTimestamp - MaxTurnBack)..(GenesisTimestamp + MaxTurnLoops * Period)

\* headers of the credit weight: A signs, A signs and A and B vote again for
\* themselves, or B signs and A missed its turn once or MaxMisses times
WeightKinds ==
  {PlainKind,
   Kind("A", TRUE, TRUE, <<[Voter |-> "A", Candidate |-> "A", Stake |-> 1],
                           [Voter |-> "B", Candidate |-> "B", Stake |-> 1]>>, <<>>, <<>>),
   Kind("B", TRUE, TRUE, <<>>, <<>>, <<"A">>),
   Kind("B", TRUE, TRUE, <<>>, <<>>, [i \in 1..MaxMisses |-> "A"])}

\* headers of the modification: A and B both vote for C, the stake of A or
\* of B is modified, or nothing
ModifyKinds ==
  {PlainKind,
   Kind("A", TRUE, TRUE, <<[Voter |-> "A", Candidate |-> "C", Stake |-> 1],
                           [Voter |-> "B", Candidate |-> "C", Stake |-> 1]>>, <<>>, <<>>)}
  \cup {Kind("A", TRUE, TRUE, <<>>, <<m>>, <<>>) :
          m \in [Voter : {"A", "B"}, Stake : Stakes]}

\* ----------------------------------------------------------------- state
Slots == {1, 2}

\* origin is the value head had when the driver cached it (a history
\* variable), queues the results of the getSignerQueue calls so far

\* cached is the apply call whose result the driver cached as head: the value
\* of its input and its headers (a history variable)
\* turn is the last inturn call: its arguments and what it returned
NoTurn == [signer |-> "", headerTime |-> 0, res |-> ""]

\* a nil *Snapshot
NoSnapshot ==
  [config |-> [MaxSignerCount |-> 0, Epoch |-> 0], Number |-> -1, Hash |-> <<>>,
   Signers |-> <<>>, Votes |-> EmptyMap,
   Tally |-> EmptyMap, Voters |-> EmptyMap, Punished |-> EmptyMap,
   HeaderTime |-> 0, LoopStartTime |-> 0]

\* an apply call: pc its position, headers its argument, i the header the
\* loop is at, snap the working copy, iter the voters the range of line 255
\* has not yielded yet, res and err what it returned. pre is the value of
\* the input snapshot when the call began, recovers counts ecrecover calls.
IdleCall ==
  [pc |-> "idle", headers |-> <<>>, i |-> 0, snap |-> NoSnapshot, iter |-> {},
   res |-> NoSnapshot, err |-> "", pre |-> NoSnapshot, recovers |-> 0]

InitConfig(configs, genesis) ==
  \E config \in configs, votes \in genesis, now \in Clock :
    LET g == newSnapshot(config, "genesis", votes, now)
    IN  /\ heap = g.heap
        /\ head = g.snap
        /\ calls = [c \in Slots |-> IdleCall]
        /\ origin = View(g.heap, g.snap)
        /\ cached = [pre |-> View(g.heap, g.snap), headers |-> <<>>]
        /\ queues = <<>>
        /\ turn = NoTurn

InitFrom(counts, genesis) ==
  InitConfig({[MaxSignerCount |-> n, Epoch |-> Epoch] : n \in counts}, genesis)

Init == InitFrom(SignerCounts, GenesisVotes({1, 2}))

\* ------------------------------------------------------ garbage collection
\* Go frees the cells no snapshot points to and the address of a cell is not
\* observable: after every step the cells in use are renumbered, in order.
Pointers(s) ==
  {s.Tally[c] : c \in DOMAIN s.Tally} \cup {s.Votes[v].Stake : v \in DOMAIN s.Votes}

Renamed(s, r) ==
  [s EXCEPT !.Tally = [c \in DOMAIN s.Tally |-> r[s.Tally[c]]],
            !.Votes = [v \in DOMAIN s.Votes |->
                         [s.Votes[v] EXCEPT !.Stake = r[s.Votes[v].Stake]]]]

Collect(h, hd, cs) ==
  LET live == Pointers(hd) \cup
              UNION {Pointers(cs[c].snap) \cup Pointers(cs[c].res) : c \in DOMAIN cs}
      r == [p \in live |-> Cardinality({q \in live : q <= p})]
  IN  [heap |-> [i \in 1..Cardinality(live) |-> h[CHOOSE p \in live : r[p] = i]],
       head |-> Renamed(hd, r),
       calls |-> [c \in DOMAIN cs |->
                    [cs[c] EXCEPT !.snap = Renamed(cs[c].snap, r),
                                  !.res = Renamed(cs[c].res, r)]]]

\* the step to the state nx = [heap, head, calls]
Commit(nx) ==
  LET g == Collect(nx.heap, nx.head, nx.calls)
  IN  /\ heap' = g.heap
      /\ head' = g.head
      /\ calls' = g.calls

\* --------------------------------------------------------------- actions
\* lines 167-182: s.apply(headers) on the cached snapshot, up to the copy
CallNext(c, headers) ==
  IF Len(headers) = 0
  THEN [heap |-> heap, head |-> head,
        calls |-> [calls EXCEPT ![c] =
                     [IdleCall EXCEPT !.pc = "done", !.res = head,
                                      !.pre = View(heap, head)]]]
  ELSE IF ~ValidChain(head.Number, headers)
  THEN [heap |-> heap, head |-> head,
        calls |-> [calls EXCEPT ![c] =
                     [IdleCall EXCEPT !.pc = "error", !.headers = headers,
                                      !.err = errInvalidVotingChain,
                                      !.pre = View(heap, head)]]]
  ELSE LET cpy == SnapshotCopy(heap, head)
       IN  [heap |-> cpy.heap, head |-> head,
            calls |-> [calls EXCEPT ![c] =
                         [IdleCall EXCEPT !.pc = "loop", !.headers = headers,
                                          !.i = 1, !.snap = cpy.snap,
                                          !.pre = View(heap, head)]]]

\* the driver calls apply on the head of its branch with one of its batches
Call(c, batches) ==
  /\ calls[c].pc = "idle"
  /\ \E headers \in batches : Commit(CallNext(c, headers))
  /\ UNCHANGED <<origin, cached, queues, turn>>

\* lines 184-252: one turn of the header loop; after the last header the
\* number and hash are set and the range over snap.Voters begins
HeaderStepNext(c) ==
  LET call == calls[c]
      header == call.headers[call.i]
  IN  IF ~header.Sig
      THEN [heap |-> heap, head |-> head,
            calls |-> [calls EXCEPT ![c] =
                         [call EXCEPT !.pc = "error", !.err = errRecover,
                                      !.snap = NoSnapshot, !.recovers = @ + 1]]]
      ELSE LET st == ApplyHeader([heap |-> heap, snap |-> call.snap], header)
               last == call.i = Len(call.headers)
               snap == IF last
                       THEN [st.snap EXCEPT !.Number = @ + Len(call.headers),
                                            !.Hash = HeaderHash(header)]
                       ELSE st.snap
           IN  [heap |-> st.heap, head |-> head,
                calls |-> [calls EXCEPT ![c] =
                  IF st.panic
                  THEN [call EXCEPT !.pc = "panic", !.snap = NoSnapshot,
                                    !.recovers = @ + 1]
                  ELSE [call EXCEPT
                          !.pc = IF ~last THEN "loop"
                                 ELSE IF DOMAIN snap.Voters = {} THEN "sweep"
                                 ELSE "expire",
                          !.i = IF last THEN @ ELSE @ + 1,
                          !.snap = snap,
                          !.iter = IF last THEN DOMAIN snap.Voters ELSE {},
                          !.recovers = @ + 1]]]

HeaderStep(c) ==
  /\ calls[c].pc = "loop"
  /\ Commit(HeaderStepNext(c))
  /\ UNCHANGED <<origin, cached, queues, turn>>

\* lines 255-270: one turn of the range over snap.Voters, which yields the
\* voters in any order
ExpireStepNext(c, voter) ==
  LET call == calls[c]
  IN  IF ExpiryStops(call.snap)
      THEN [heap |-> heap, head |-> head,
            calls |-> [calls EXCEPT ![c] =
                         [call EXCEPT !.pc = "sweep", !.iter = {}]]]
      ELSE LET st == ExpireVoter([heap |-> heap, snap |-> call.snap,
                                  panic |-> FALSE], voter)
               rest == call.iter \ {voter}
           IN  [heap |-> st.heap, head |-> head,
                calls |-> [calls EXCEPT ![c] =
                  IF st.panic
                  THEN [call EXCEPT !.pc = "panic", !.snap = NoSnapshot,
                                    !.iter = {}]
                  ELSE [call EXCEPT
                          !.pc = IF rest = {} THEN "sweep" ELSE "expire",
                          !.snap = st.snap, !.iter = rest]]]

ExpireStep(c) ==
  /\ calls[c].pc = "expire"
  /\ \E voter \in calls[c].iter : Commit(ExpireStepNext(c, voter))
  /\ UNCHANGED <<origin, cached, queues, turn>>

\* lines 271-278: the sweep of the tally, and the return
ReturnNext(c) ==
  [heap |-> heap, head |-> head,
   calls |-> [calls EXCEPT ![c] =
                [@ EXCEPT !.pc = "done", !.snap = NoSnapshot,
                          !.res = SweepTally(heap, calls[c].snap)]]]

Return(c) ==
  /\ calls[c].pc = "sweep"
  /\ Commit(ReturnNext(c))
  /\ UNCHANGED <<origin, cached, queues, turn>>

\* the driver caches the returned snapshot as the new head of its branch;
\* after an error it gives the branch up
CacheNext(c) ==
  [heap |-> heap, head |-> calls[c].res, calls |-> [calls EXCEPT ![c] = IdleCall]]

Cache(c) ==
  /\ calls[c].pc = "done"
  /\ Commit(CacheNext(c))
  /\ origin' = View(heap, calls[c].res)
  /\ cached' = [pre |-> origin, headers |-> calls[c].headers]
  /\ UNCHANGED <<queues, turn>>

\* the driver asks the cached snapshot for the signer queue of the next loop
GetSignerQueue ==
  /\ Len(queues) < MaxQueues
  /\ \A c \in Slots : calls[c].pc = "idle"
  /\ \E q \in getSignerQueue(heap, head) :
       queues' = Append(queues, [snap |-> View(heap, head), queue |-> q])
  /\ UNCHANGED <<heap, head, calls, origin, cached, turn>>

\* a producer asks the cached snapshot whether signer is in turn at headerTime
Inturn ==
  /\ \A c \in Slots : calls[c].pc = "idle"
  /\ \E signer \in Address, headerTime \in HeaderTimes :
       turn' = [signer |-> signer, headerTime |-> headerTime,
                res |-> inturn(head, signer, headerTime)]
  /\ UNCHANGED <<heap, head, calls, origin, cached, queues>>

Batches(kinds) ==
  {<<>>} \cup ValidBatches(head.Number, kinds, MaxHeight)
         \cup InvalidBatches(head.Number)

Next ==
  \/ Call(1, Batches(VoteKinds))
  \/ HeaderStep(1)
  \/ ExpireStep(1)
  \/ Return(1)
  \/ Cache(1)

Spec == Init /\ [][Next]_vars

\* the punishment ledger: one voter, headers that punish and reward
InitPunish == InitFrom(SignerCounts, GenesisVotes({1}))

NextPunish ==
  \/ Call(1, ValidBatches(head.Number, PunishKinds, MaxPunishHeight))
  \/ HeaderStep(1)
  \/ ExpireStep(1)
  \/ Return(1)
  \/ Cache(1)

SpecPunish == InitPunish /\ [][NextPunish]_vars

\* the punishment decay: the same headers on chains of every Epoch
InitDecay ==
  InitConfig({[MaxSignerCount |-> n, Epoch |-> e] : n \in SignerCounts, e \in 1..MaxEpoch},
             GenesisVotes({1}))

SpecDecay == InitDecay /\ [][NextPunish]_vars

\* the expiry: two or three voters at genesis, headers in which they vote again
InitExpire == InitFrom(SignerCounts, GenesisVotes({2, 3}))

NextExpire ==
  \/ Call(1, ValidBatches(head.Number, ExpireKinds, MaxExpireHeight))
  \/ HeaderStep(1)
  \/ ExpireStep(1)
  \/ Return(1)
  \/ Cache(1)

SpecExpire == InitExpire /\ [][NextExpire]_vars

\* the signer queue: two or three candidates at genesis, headers that punish
\* A or move B's vote
InitQueue == InitFrom({MaxSignerCount}, GenesisVotes({2, 3}))

NextQueue ==
  \/ Call(1, ValidBatches(head.Number, QueueKinds, MaxQueueHeight))
  \/ HeaderStep(1)
  \/ ExpireStep(1)
  \/ Return(1)
  \/ Cache(1)
  \/ GetSignerQueue

SpecQueue == InitQueue /\ [][NextQueue]_vars

\* the producer slot: genesis of one or two signers, headers, inturn calls
NextTurn ==
  \/ Call(1, ValidBatches(head.Number, TurnKinds, MaxTurnHeight))
  \/ HeaderStep(1)
  \/ ExpireStep(1)
  \/ Return(1)
  \/ Cache(1)
  \/ Inturn

SpecTurn == Init /\ [][NextTurn]_vars

\* the credit weight: one signer slot and two voters at genesis, headers
\* that punish and reward A, signer queues of the cached snapshots
InitWeight == InitFrom({1}, GenesisVotes({2}))

NextWeight ==
  \/ Call(1, ValidBatches(head.Number, WeightKinds, MaxWeightHeight))
  \/ HeaderStep(1)
  \/ ExpireStep(1)
  \/ Return(1)
  \/ Cache(1)
  \/ GetSignerQueue

SpecWeight == InitWeight /\ [][NextWeight]_vars

\* the modification: headers that vote and headers that modify a stake
NextModify ==
  \/ Call(1, ValidBatches(head.Number, ModifyKinds, MaxHeight))
  \/ HeaderStep(1)
  \/ ExpireStep(1)
  \/ Return(1)
  \/ Cache(1)

SpecModify == Init /\ [][NextModify]_vars

\* two branches: both slots call apply on the same cached parent, a genesis
\* of two voters, and nothing is cached afterwards
NextFork ==
  \E c \in Slots :
    \/ Call(c, ValidBatches(head.Number, ForkKinds, MaxForkHeight))
    \/ HeaderStep(c)
    \/ ExpireStep(c)
    \/ Return(c)

InitFork == InitFrom(SignerCounts, GenesisVotes({2}))

SpecFork == InitFork /\ [][NextFork]_vars

\* ------------------------------------------------- apply as one function
\* a snapshot with the value view that shares no cell with any other
Rank(S, a) ==
  Cardinality({b \in S : (CHOOSE i \in DOMAIN Order : Order[i] = b)
                           <= (CHOOSE i \in DOMAIN Order : Order[i] = a)})

Materialize(view) ==
  LET voters == DOMAIN view.Votes
      cands == DOMAIN view.Tally
      nv == Cardinality(voters)
  IN  [heap |-> [i \in 1..(nv + Cardinality(cands)) |->
                   IF i <= nv
                   THEN view.Votes[CHOOSE a \in voters : Rank(voters, a) = i].Stake
                   ELSE view.Tally[CHOOSE a \in cands : Rank(cands, a) = i - nv]],
       snap |-> [view EXCEPT
                  !.Votes = [a \in voters |-> [@[a] EXCEPT !.Stake = Rank(voters, a)]],
                  !.Tally = [a \in cands |-> nv + Rank(cands, a)]]]

\* lines 184-250: the header loop; st = [heap, snap, panic, err]
RECURSIVE LoopAlone(_, _)
LoopAlone(st, headers) ==
  IF headers = <<>> \/ st.panic \/ st.err THEN st
  ELSE IF ~Head(headers).Sig THEN [st EXCEPT !.err = TRUE]
  ELSE LET n == ApplyHeader([heap |-> st.heap, snap |-> st.snap], Head(headers))
       IN  LoopAlone([heap |-> n.heap, snap |-> n.snap, panic |-> n.panic,
                      err |-> FALSE], Tail(headers))

\* lines 255-270: the states the range over snap.Voters can end in
RECURSIVE ExpireAlone(_, _)
ExpireAlone(st, iter) ==
  IF iter = {} \/ st.panic \/ ExpiryStops(st.snap) THEN {st}
  ELSE UNION {ExpireAlone(ExpireVoter(st, v), iter \ {v}) : v \in iter}

\* lines 167-279: what apply(headers) can return on a snapshot of the value
\* view that nothing else refers to
ApplyAlone(view, headers) ==
  LET none == View(<<>>, NoSnapshot)
  IN  IF headers = <<>> THEN {[pc |-> "done", res |-> view]}
      ELSE IF ~ValidChain(view.Number, headers)
      THEN {[pc |-> "error", res |-> none]}
      ELSE
      LET m == Materialize(view)
          cpy == SnapshotCopy(m.heap, m.snap)
          l == LoopAlone([heap |-> cpy.heap, snap |-> cpy.snap, panic |-> FALSE,
                          err |-> FALSE], headers)
          s == [l.snap EXCEPT !.Number = @ + Len(headers),
                              !.Hash = HeaderHash(headers[Len(headers)])]
      IN  IF l.panic THEN {[pc |-> "panic", res |-> none]}
          ELSE IF l.err THEN {[pc |-> "error", res |-> none]}
          ELSE {IF e.panic THEN [pc |-> "panic", res |-> none]
                ELSE [pc |-> "done", res |-> View(e.heap, SweepTally(e.heap, e.snap))] :
                  e \in ExpireAlone([heap |-> l.heap, snap |-> s, panic |-> FALSE],
                                    DOMAIN s.Voters)}

\* ---------------------------------------------------------------- claims
\* the stake the active votes of s give to candidate
RECURSIVE StakeSum(_, _, _, _)
StakeSum(h, s, candidate, voters) ==
  IF voters = {} THEN 0
  ELSE LET v == CHOOSE x \in voters : TRUE
       IN  (IF s.Votes[v].Candidate = candidate THEN h[s.Votes[v].Stake] ELSE 0)
           + StakeSum(h, s, candidate, voters \ {v})

TallyOf(h, s, candidate) ==
  IF candidate \in DOMAIN s.Tally THEN h[s.Tally[candidate]] ELSE 0

\* the header loop has run the body of header j of call c
Processed(c, j) ==
  /\ j \in DOMAIN calls[c].headers
  /\ calls[c].headers[j].Sig
  /\ \/ calls[c].pc \in {"expire", "sweep", "done"}
     \/ calls[c].pc = "loop" /\ j < calls[c].i

\* C1: when apply returns a snapshot, every field of its input snapshot
\* (tally values and vote stakes read through their pointers) has the value
\* it had when the call began.
C1_InputUnchanged ==
  \A c \in Slots : calls[c].pc = "done" => View(heap, head) = calls[c].pre

\* C2: in the snapshot a successful apply returns, the tally of every
\* candidate (0 when absent) is the sum of the stakes of the active votes
\* naming it.
C2_TallyIsStakeSum ==
  \A c \in Slots :
    calls[c].pc = "done" =>
      \A a \in Address :
        TallyOf(heap, calls[c].res, a)
          = StakeSum(heap, calls[c].res, a, DOMAIN calls[c].res.Votes)

\* C3: when apply fails, it returns no snapshot and the input snapshot has
\* the value it had when the call began.
C3_FailureLeavesInput ==
  \A c \in Slots :
    calls[c].pc = "error" =>
      calls[c].res = NoSnapshot /\ View(heap, head) = calls[c].pre

\* C4: once the loop has run a header whose extra payload does not decode,
\* apply has failed: it returned an error and no snapshot.
C4_DecodeFailureAborts ==
  \A c \in Slots :
    \A j \in DOMAIN calls[c].headers :
      Processed(c, j) /\ ~calls[c].headers[j].Dec =>
        calls[c].pc = "error" /\ calls[c].res = NoSnapshot

\* C5: when two apply calls run on the same parent with different header
\* sequences, what each has returned is what apply returns for its headers
\* on the parent alone: nothing of the other call shows in it.
C5_ForkIndependence ==
  \A c \in Slots :
    /\ calls[c].pc \in {"done", "error", "panic"}
    /\ \A d \in Slots \ {c} : calls[d].pc # "idle" /\ calls[d].headers # calls[c].headers
    => [pc |-> calls[c].pc, res |-> View(heap, calls[c].res)]
         \in ApplyAlone(origin, calls[c].headers)

\* C6: two evaluations of getSignerQueue on snapshots equal in every field
\* return the same sequence of addresses.
C6_QueueDeterministic ==
  \A i, j \in DOMAIN queues :
    queues[i].snap = queues[j].snap => queues[i].queue = queues[j].queue

\* C8: apply on a non-empty batch that has a gap or does not start at
\* number + 1 fails with errInvalidVotingChain, returns no snapshot, has
\* called ecrecover on no header and leaves the input snapshot as it was.
C8_InvalidChainRefused ==
  \A c \in Slots :
    calls[c].headers # <<>> /\ BrokenChain(calls[c].pre.Number, calls[c].headers) =>
      /\ calls[c].pc = "error"
      /\ calls[c].err = errInvalidVotingChain
      /\ calls[c].res = NoSnapshot
      /\ calls[c].recovers = 0
      /\ View(heap, head) = calls[c].pre

\* a batch of two headers with a gap was refused
C8_Witness ==
  \E c \in Slots :
    /\ calls[c].pc = "error"
    /\ Len(calls[c].headers) = 2
    /\ calls[c].headers[1].Number = calls[c].pre.Number + 1
    /\ calls[c].headers[2].Number # calls[c].headers[1].Number + 1

\* C9: in a snapshot returned by apply on at least one header every tally
\* entry is strictly positive.
C9_TallyPositive ==
  \A c \in Slots :
    calls[c].pc = "done" /\ calls[c].headers # <<>> =>
      \A a \in DOMAIN calls[c].res.Tally : heap[calls[c].res.Tally[a]] > 0

\* a returned snapshot that kept positive entries and lost the entry of a
\* candidate an active vote still names
C9_Witness ==
  \E c \in Slots :
    /\ calls[c].pc = "done" /\ calls[c].headers # <<>>
    /\ calls[c].res.Tally # EmptyMap
    /\ \E v \in DOMAIN calls[c].res.Votes :
         calls[c].res.Votes[v].Candidate \notin DOMAIN calls[c].res.Tally

\* the punishment ledger of call c's copy before the reward of the header
\* the loop is at: after the decay and the penalties of that header
BeforeReward(c) ==
  LET header == calls[c].headers[calls[c].i]
  IN  PunishMissing(HalvePunished(calls[c].snap.config.Epoch,
                                  calls[c].snap.Punished, header.Number),
                    DecodeExtra(header).SignerMissing)

\* C7: the reward of a header whose coinbase has the counter p leaves
\* p - 10 when p > 10 and removes the entry when p <= 10.
C7_RewardNeverWraps ==
  [][\A c \in Slots :
       /\ calls[c].pc = "loop"
       /\ calls'[c].pc \in {"loop", "expire", "sweep"}
       /\ calls[c].headers[calls[c].i].Coinbase \in DOMAIN BeforeReward(c)
       => LET coinbase == calls[c].headers[calls[c].i].Coinbase
              p == BeforeReward(c)[coinbase]
              after == calls'[c].snap.Punished
          IN  IF Less64(U64(signRewardCredit), p)
              THEN coinbase \in DOMAIN after
                   /\ after[coinbase] = Sub64(p, U64(signRewardCredit))
              ELSE coinbase \notin DOMAIN after]_vars

\* the voters one step of call c's expiry has taken out of the copy
Removed(c) == DOMAIN calls[c].snap.Voters \ DOMAIN calls'[c].snap.Voters

\* C10: a step of the expiry that removes a voter removes its vote and
\* subtracts its stake from its candidate's tally; and a returned snapshot
\* with more than config.MaxSignerCount voters and more than
\* config.MaxSignerCount tally candidates holds no voter whose last vote is
\* more than Epoch blocks old.
C10_ExpiryComplete ==
  [][\A c \in Slots :
       /\ (calls[c].pc = "expire" /\ calls'[c].pc \in {"expire", "sweep"} =>
             \A v \in Removed(c) :
               LET vote == calls[c].snap.Votes[v]
               IN  /\ v \notin DOMAIN calls'[c].snap.Votes
                   /\ TallyOf(heap', calls'[c].snap, vote.Candidate)
                        = TallyOf(heap, calls[c].snap, vote.Candidate)
                            - heap[vote.Stake])
       /\ (/\ calls[c].pc = "sweep" /\ calls'[c].pc = "done"
           /\ Cardinality(DOMAIN calls'[c].res.Voters)
                > calls'[c].res.config.MaxSignerCount
           /\ Cardinality(DOMAIN calls'[c].res.Tally)
                > calls'[c].res.config.MaxSignerCount
           => \A v \in DOMAIN calls'[c].res.Voters \cup DOMAIN calls'[c].res.Votes :
                /\ v \in DOMAIN calls'[c].res.Voters
                /\ ~(calls'[c].res.Number - calls'[c].res.Voters[v]
                       > calls'[c].res.config.Epoch))]_vars

\* a returned snapshot past both thresholds from which the expiry removed a
\* voter of the input
C10_Witness ==
  \E c \in Slots :
    /\ calls[c].pc = "done" /\ calls[c].headers # <<>>
    /\ Cardinality(DOMAIN calls[c].res.Voters) > calls[c].res.config.MaxSignerCount
    /\ Cardinality(DOMAIN calls[c].res.Tally) > calls[c].res.config.MaxSignerCount
    /\ DOMAIN calls[c].pre.Voters \ DOMAIN calls[c].res.Voters # {}

\* the index of the slot of headerTime: floor((headerTime - LoopStartTime)
\* / Period) mod len(Signers), 0 when there are no signers
SlotIndex(s, headerTime) ==
  IF Len(s.Signers) = 0 THEN 0
  ELSE ((headerTime - s.LoopStartTime) \div Period) % Len(s.Signers)

\* C11: inturn does not fail, and returns true exactly when the signer at
\* the slot index of headerTime is the signer asked about.
C11_InturnIsSlot ==
  turn # NoTurn =>
    /\ turn.res \in {"true", "false"}
    /\ turn.res = "true" <=>
         /\ SlotIndex(head, turn.headerTime) + 1 \in DOMAIN head.Signers
         /\ head.Signers[SlotIndex(head, turn.headerTime) + 1] = turn.signer

\* max(1000 - punishment, 300) for the counter of address in the snapshot
\* value s, the punishment being 0 when absent
FairCredit(s, address) ==
  IF address \notin DOMAIN s.Punished THEN defaultFullCredit
  ELSE LET p == s.Punished[address]
       IN  IF Less64(U64(defaultFullCredit - minCalSignerQueueCredit), p)
           THEN minCalSignerQueueCredit
           ELSE defaultFullCredit - (p[1] + p[2] * Base)

\* stake x max(1000 - punishment, 300)
FairWeight(s, address) == s.Tally[address] * FairCredit(s, address)

Range(q) == {q[i] : i \in DOMAIN q}

\* C12: getSignerQueue returns min(MaxSignerCount, number of candidates)
\* distinct tally candidates, none left out has a strictly higher weight
\* than one included, and of two candidates of equal stake a punished one
\* is never included while the unpunished one is left out.
C12_QueueIsTop ==
  \A k \in DOMAIN queues :
    LET s == queues[k].snap
        q == queues[k].queue
        n == Cardinality(DOMAIN s.Tally)
    IN  /\ Len(q) = IF s.config.MaxSignerCount < n THEN s.config.MaxSignerCount ELSE n
        /\ Range(q) \subseteq DOMAIN s.Tally
        /\ Cardinality(Range(q)) = Len(q)
        /\ \A in \in Range(q), out \in DOMAIN s.Tally \ Range(q) :
             /\ FairWeight(s, out) <= FairWeight(s, in)
             /\ s.Tally[in] = s.Tally[out] /\ in \in DOMAIN s.Punished
                  => out \in DOMAIN s.Punished

\* C14: the credit weight getSignerQueue uses for a punished candidate is
\* max(1000 - punishment, 300).
C14_CreditInRange ==
  \A k \in DOMAIN queues :
    LET s == queues[k].snap
    IN  \A a \in DOMAIN s.Tally \cap DOMAIN s.Punished :
          CreditWeight(s.Punished[a]) = Int64(U64(FairCredit(s, a)))

\* how often address occurs in the sequence missing
RECURSIVE Misses(_, _)
Misses(missing, address) ==
  IF missing = <<>> THEN 0
  ELSE (IF Head(missing) = address THEN 1 ELSE 0) + Misses(Tail(missing), address)

\* C13: a header with number n turns every counter p it finds into
\* floor(p / 2), removing it at 0, when n mod Epoch = 0 and leaves it alone
\* otherwise, and it does so before its penalties and its reward: the
\* counter ends as that value plus 100 for each miss, less the reward of 10
\* (in uint64) when the address is the coinbase.
C13_PunishDecay ==
  [][\A c \in Slots :
       calls[c].pc = "loop" /\ calls'[c].pc \in {"loop", "expire", "sweep"} =>
         LET header == calls[c].headers[calls[c].i]
             missing == DecodeExtra(header).SignerMissing
             before == calls[c].snap.Punished
             after == calls'[c].snap.Punished
         IN  \A a \in DOMAIN before :
               LET decayed == IF header.Number % calls[c].snap.config.Epoch = 0
                              THEN Div64(before[a], 2)
                              ELSE before[a]
                   punished == Add64(decayed,
                                     U64(missingPublishCredit * Misses(missing, a)))
                   expected == IF a = header.Coinbase /\ punished # Zero64
                               THEN Sub64(punished, U64(signRewardCredit))
                               ELSE punished
               IN  IF expected = Zero64
                   THEN a \notin DOMAIN after
                   ELSE a \in DOMAIN after /\ after[a] = expected]_vars

\* on a chain of Epoch 2 the counter 100 of header 1 was halved by header 2
\* and left alone by header 3
C13_Witness ==
  \E c \in Slots :
    /\ calls[c].snap.config.Epoch = 2
    /\ calls[c].pc \in {"expire", "sweep"}
    /\ calls[c].snap.Number = 3
    /\ "A" \in DOMAIN head.Punished /\ head.Punished["A"] = U64(50)
    /\ "A" \in DOMAIN calls[c].snap.Punished
    /\ calls[c].snap.Punished["A"] = U64(50)

\* C15: a step of the expiry removes a vote only when, before the step, the
\* voters and the candidates with a nonzero tally both outnumber
\* config.MaxSignerCount and the voter's last vote is more than Epoch
\* blocks behind the new snapshot number.
C15_ExpiryStops ==
  [][\A c \in Slots :
       calls[c].pc = "expire" /\ calls'[c].pc \in {"expire", "sweep"} =>
         LET snap == calls[c].snap
         IN  \A v \in DOMAIN snap.Votes \ DOMAIN calls'[c].snap.Votes :
               /\ Cardinality(DOMAIN snap.Voters) > snap.config.MaxSignerCount
               /\ Cardinality({a \in DOMAIN snap.Tally : heap[snap.Tally[a]] # 0})
                    > snap.config.MaxSignerCount
               /\ snap.Number - snap.Voters[v] > snap.config.Epoch]_vars

\* C16: in every snapshot apply returns the candidate of every active vote
\* is a key of the tally, and apply never fails on a missing tally entry.
C16_VotedCandidateHasTally ==
  \A c \in Slots :
    /\ calls[c].pc # "panic"
    /\ calls[c].pc = "done" =>
         \A v \in DOMAIN calls[c].res.Votes :
           calls[c].res.Votes[v].Candidate \in DOMAIN calls[c].res.Tally

\* C17: a header that carries one modification, for voter v, and nothing
\* else changes the stake of votes[v] to the new stake and the tally of its
\* candidate by the new stake less the old one; every other vote, every
\* other tally entry, voters and votes[v].candidate stay, and the punishment
\* ledger is what the header's decay and reward make of it. Without a vote
\* of v nothing changes.
C17_ModifyFrame ==
  [][\A c \in Slots :
       LET header == calls[c].headers[calls[c].i]
       IN  /\ calls[c].pc = "loop" /\ calls'[c].pc \in {"loop", "expire", "sweep"}
           /\ header.Dec /\ header.Extra.CurrentBlockVotes = <<>>
           /\ Len(header.Extra.ModifyPredecessorVotes) = 1
           => LET m == header.Extra.ModifyPredecessorVotes[1]
                  before == View(heap, calls[c].snap)
                  after == View(heap', calls'[c].snap)
                  active == m.Voter \in DOMAIN before.Votes
                  cand == before.Votes[m.Voter].Candidate
              IN  /\ after.Voters = before.Voters
                  /\ DOMAIN after.Votes = DOMAIN before.Votes
                  /\ \A v \in DOMAIN before.Votes \ {m.Voter} :
                       after.Votes[v] = before.Votes[v]
                  /\ active => after.Votes[m.Voter] =
                                 [before.Votes[m.Voter] EXCEPT !.Stake = m.Stake]
                  /\ DOMAIN after.Tally = DOMAIN before.Tally
                  /\ \A a \in DOMAIN before.Tally :
                       after.Tally[a] =
                         IF active /\ a = cand
                         THEN before.Tally[a] + m.Stake - before.Votes[m.Voter].Stake
                         ELSE before.Tally[a]
                  /\ after.Punished = RewardSigner(BeforeReward(c), header.Coinbase)]_vars

\* C18: in the genesis snapshot and in every snapshot apply returns the
\* keys of voters are the keys of votes, isVoter(a) holds exactly for the
\* addresses with an active vote, and no voters[v] exceeds the number.
C18_VotersAreVotes ==
  \A s \in {head} \cup {calls[c].res : c \in {d \in Slots : calls[d].pc = "done"}} :
    /\ DOMAIN s.Voters = DOMAIN s.Votes
    /\ \A a \in Address : isVoter(s, a) <=> a \in DOMAIN s.Votes
    /\ \A v \in DOMAIN s.Voters : s.Voters[v] <= s.Number

\* a returned snapshot with a voter its input did not have, voting at the
\* new number, and without a voter of its input
C18_Witness ==
  \E c \in Slots :
    /\ calls[c].pc = "done"
    /\ DOMAIN calls[c].pre.Voters \ DOMAIN calls[c].res.Voters # {}
    /\ \E v \in DOMAIN calls[c].res.Voters \ DOMAIN calls[c].pre.Voters :
         calls[c].res.Voters[v] = calls[c].res.Number

\* C19: the snapshot apply returned is the only one apply can return for
\* its input and its headers, whatever the order of the range over voters.
C19_ApplyDeterministic ==
  \A c \in Slots :
    calls[c].pc = "done" =>
      \A o \in ApplyAlone(calls[c].pre, calls[c].headers) :
        o = [pc |-> "done", res |-> View(heap, calls[c].res)]

\* C20: when the driver applies h1..hk, caches the result and applies
\* hk+1..hn to it, what the second call returns is what apply returns for
\* h1..hn on the input of the first.
C20_BatchSplit ==
  \A c \in Slots :
    /\ calls[c].pc \in {"done", "error", "panic"}
    /\ calls[c].headers # <<>> /\ cached.headers # <<>>
    /\ ~BrokenChain(calls[c].pre.Number, calls[c].headers)
    => [pc |-> calls[c].pc, res |-> View(heap, calls[c].res)]
         \in ApplyAlone(cached.pre, cached.headers \o calls[c].headers)

====
